---- MODULE Spec2Model ----
(***************************************************************************)
(* Model of unicode-explorer's two font conversion scripts.                *)
(*                                                                         *)
(*   converter.py      extract_images -> embed_sbix -> font.save           *)
(*   make_svg_font.py  add_empty_outlines -> build_svg_docs ->             *)
(*                     drop_bitmap_tables -> font.save -> to_woff2         *)
(*                                                                         *)
(* A font is a glyph order and a mapping from table tag to table.  Bytes   *)
(* are sequences of integers 0..255.  Python's None is the empty sequence  *)
(* and a present optional value x is <<x>>.  Python dicts are functions;   *)
(* a dict whose iteration order the code depends on (sbix strikes) is a    *)
(* sequence of [key, val] entries in insertion order.                      *)
(***************************************************************************)
EXTENDS Integers, Sequences, FiniteSets, TLC

VARIABLES
    pc,           \* position of the running script
    font,         \* the in-memory TTFont: [order, tables]
    face,         \* the FreeType face: [num_fixed_sizes, sel, px, glyphs]
    chosen_sbix,  \* None or the chosen sbix strike
    chosen_cbdt,  \* None or the chosen CBDT strike
    idx,          \* number of glyphs of the glyph order already processed
    images,       \* extract_images: glyph name -> RGBA image
    out_dir,      \* extract_images: glyph name -> image saved as <name>.png
    rendered,     \* glyph names render_glyph was invoked for
    handed,       \* glyph name -> bytes handed to Image.open
    raised,       \* the exception that left the script, or "none"
    disk,         \* saved fonts: path -> font
    png_dir,      \* make_svg_font: glyph name -> bytes of <name>.png
    out_woff2,    \* make_svg_font: TRUE when a woff2 path was given
    docList,      \* make_svg_font: None or the list build_svg_docs returned
    embed_args    \* None or the (ppem, resolution) embed_sbix was called with

vars == <<pc, font, face, chosen_sbix, chosen_cbdt, idx, images, out_dir,
          rendered, handed, raised, disk, png_dir, out_woff2, docList,
          embed_args>>

----------------------------------------------------------------------------
(* Generic helpers *)

None == <<>>
Some(x) == <<x>>
EmptyMap == [n \in {} |-> <<>>]
Min(a, b) == IF a < b THEN a ELSE b
Range(s) == {s[k] : k \in DOMAIN s}

\* Python d[k] = v on a dict
Put(d, k, v) == [n \in (DOMAIN d) \cup {k} |-> IF n = k THEN v ELSE d[n]]
\* Python del d[k]
Del(d, k) == [n \in (DOMAIN d) \ {k} |-> d[n]]
\* Python data[a:b] on bytes (0-based, clamped to the length)
Slice(data, a, b) == SubSeq(data, Min(a, Len(data)) + 1, Min(b, Len(data)))

RECURSIVE Zeros(_)
Zeros(n) == IF n <= 0 THEN <<>> ELSE <<0>> \o Zeros(n - 1)

----------------------------------------------------------------------------
(* Program constants *)

DEFAULT_SIZE == 128
DEFAULT_RESOLUTION == 72
PNG_SIGNATURE == <<137, 80, 78, 71>>
BITMAP_TAGS == <<"sbix", "CBDT", "CBLC", "EBDT", "EBLC">>

----------------------------------------------------------------------------
(* The image codec (PIL), as the scripts use it.  An encoded PNG is the    *)
(* 8-byte PNG magic, one byte of width, one byte of height and four bytes  *)
(* (RGBA) per pixel; a second container format stands for the non-PNG      *)
(* formats the codec also recognises.  Opening an image reads its header   *)
(* only (the magic and a non-zero size); converting it decodes the pixels.  *)

PNG_MAGIC == PNG_SIGNATURE \o <<13, 10, 26, 10>>
JPEG_MAGIC == <<255, 216, 255>>

HasPrefix(b, p) == Len(b) >= Len(p) /\ SubSeq(b, 1, Len(p)) = p

\* the header after a magic of n bytes: err = the codec does not identify
\* the image (header cut off, or a zero width or height)
HeaderAfter(b, n) ==
    IF Len(b) < n + 2 THEN [err |-> TRUE, size |-> <<0, 0>>]
    ELSE IF b[n + 1] = 0 \/ b[n + 2] = 0 THEN [err |-> TRUE, size |-> <<0, 0>>]
    ELSE [err |-> FALSE, size |-> <<b[n + 1], b[n + 2]>>]

\* Image.open(file) and im.size, with no load or convert: the header only
ImageOpenLazy(b) ==
    IF HasPrefix(b, PNG_MAGIC) THEN HeaderAfter(b, Len(PNG_MAGIC))
    ELSE IF HasPrefix(b, JPEG_MAGIC) THEN HeaderAfter(b, Len(JPEG_MAGIC))
    ELSE [err |-> TRUE, size |-> <<0, 0>>]

\* open, then convert("RGBA"): the pixels are decoded, and cut-off pixel
\* data raises as well
DecodeAfter(b, n) ==
    IF HeaderAfter(b, n).err THEN [err |-> TRUE, img |-> None]
    ELSE LET w == HeaderAfter(b, n).size[1]
             h == HeaderAfter(b, n).size[2]
         IN IF Len(b) < n + 2 + 4 * w * h
            THEN [err |-> TRUE, img |-> None]
            ELSE [err |-> FALSE,
                  img |-> Some([w |-> w, h |-> h,
                                px |-> SubSeq(b, n + 3, n + 2 + 4 * w * h)])]

\* Image.open(io.BytesIO(b)).convert("RGBA"): err = the codec raised
ImageOpen(b) ==
    IF HasPrefix(b, PNG_MAGIC) THEN DecodeAfter(b, Len(PNG_MAGIC))
    ELSE IF HasPrefix(b, JPEG_MAGIC) THEN DecodeAfter(b, Len(JPEG_MAGIC))
    ELSE [err |-> TRUE, img |-> None]

\* img.save(buf, format="PNG"); buf.getvalue()
PngEncode(img) == PNG_MAGIC \o <<img.w, img.h>> \o img.px

----------------------------------------------------------------------------
(* Bounds and the input sets drawn from them *)

MaxGlyphs == 2        \* glyphs of the font, converter.py runs
MaxStrikes == 3       \* strikes of the sbix table, strike selection runs
MaxCbdtGlyphs == 1    \* glyphs of the font, CBDT decoding runs
MaxSvgGlyphs == 2     \* glyphs of the font, make_svg_font.py runs

NamePool == <<"A", "B", "C", "D">>
Order(n) == SubSeq(NamePool, 1, Min(n, Len(NamePool)))
Names(n) == Range(Order(n))

Ppems == {64, 96, DEFAULT_SIZE}
EmbedPpems == {64, DEFAULT_SIZE}
EmbedResolutions == {DEFAULT_RESOLUTION, 144}

\* all dicts from a subset of names to values
Maps(names, values) == UNION {[S -> values] : S \in SUBSET names}

PNG_A == PNG_MAGIC \o <<1, 1>> \o <<10, 20, 30, 255>>
PNG_B == PNG_MAGIC \o <<1, 1>> \o <<40, 50, 60, 128>>
PNG_C == PNG_MAGIC \o <<2, 1>> \o <<1, 2, 3, 4, 5, 6, 7, 8>>
JPEG_A == JPEG_MAGIC \o <<1, 1>> \o <<70, 80, 90, 255>>
CORRUPT == <<137, 80, 78, 71, 13, 10>>
\* a PNG with a whole header and cut-off pixel data
PNG_CUT == PNG_MAGIC \o <<1, 1>> \o <<10, 20>>
GARBAGE == <<5, 5>>

\* the per-glyph bitmaps a face can produce
BMP_OK == [err |-> FALSE, width |-> 1, rows |-> 1, buffer |-> <<200>>]
BMP_EMPTY == [err |-> FALSE, width |-> 0, rows |-> 0, buffer |-> <<>>]
BMP_ERROR == [err |-> TRUE, width |-> 0, rows |-> 0, buffer |-> <<>>]

Face(nfs, glyphs) ==
    [num_fixed_sizes |-> nfs, sel |-> "none", px |-> 0, glyphs |-> glyphs]

\* a strike of an sbix table as extract_images reads it: its ppem and its
\* glyphData, a dict from glyph name to an entry with a data attribute.
\* (embed_sbix files its glyph records under the strike's glyphs attribute.)
SbixStrike(ppem, glyphData) ==
    [ppem |-> ppem, resolution |-> DEFAULT_RESOLUTION,
     glyphData |-> glyphData, glyphs |-> EmptyMap]

SbixTable(strikes) == [version |-> 1, flags |-> 1, strikes |-> strikes]
CbdtTable(strikeData) == [strikeData |-> strikeData]

\* a CBDT format 17 record: 5 bytes metrics, 4 bytes length, the payload
Cbdt17(metrics, field, payload) == metrics \o field \o payload

\* the font with the given optional sbix and CBDT tables
MkFont(order, sbix, cbdt) ==
    [order |-> order,
     tables |-> [t \in {"cmap"}
                       \cup (IF sbix = None THEN {} ELSE {"sbix"})
                       \cup (IF cbdt = None THEN {} ELSE {"CBDT"}) |->
                   IF t = "sbix" THEN sbix[1]
                   ELSE IF t = "CBDT" THEN cbdt[1]
                   ELSE [tag |-> t]]]

----------------------------------------------------------------------------
(* converter.py *)

RECURSIVE AlphaToRGBA(_)
AlphaToRGBA(buffer) ==
    IF buffer = <<>> THEN <<>>
    ELSE <<0, 0, 0, Head(buffer)>> \o AlphaToRGBA(Tail(buffer))

\* render_glyph(face, glyph_index, size): the size selected on the face and
\* the outcome: an FT_Exception, None for an empty bitmap, or the image
\* whose alpha channel is the coverage bitmap.
render_glyph(f, glyph_index, size) ==
    LET sel == IF f.num_fixed_sizes # 0 THEN "fixed0" ELSE "px"
        px  == IF f.num_fixed_sizes # 0 THEN 0 ELSE size
        bmp == f.glyphs[glyph_index + 1]
    IN [face |-> [f EXCEPT !.sel = sel, !.px = px],
        err  |-> bmp.err,
        img  |-> IF bmp.err \/ bmp.width = 0 \/ bmp.rows = 0 THEN None
                 ELSE Some([w |-> bmp.width, h |-> bmp.rows,
                            px |-> AlphaToRGBA(bmp.buffer)])]

\* values() of the strikes dict, in iteration order
StrikeValues(strikes) == [k \in DOMAIN strikes |-> strikes[k].val]

\* max that keeps the last maximal element instead of the first
RECURSIVE MaxByPpemLast(_)
MaxByPpemLast(values) ==
    IF Len(values) = 1 THEN values[1]
    ELSE LET best == MaxByPpemLast(SubSeq(values, 1, Len(values) - 1))
             last == values[Len(values)]
         IN IF last.ppem >= best.ppem THEN last ELSE best

\* Python max(values, key=ppem): the first maximal element
RECURSIVE MaxByPpem(_)
MaxByPpem(values) ==
    IF Len(values) = 1 THEN values[1]
    ELSE LET best == MaxByPpem(SubSeq(values, 1, Len(values) - 1))
             last == values[Len(values)]
         IN IF last.ppem > best.ppem THEN last ELSE best

\* lines 34-38: the sbix strike extract_images reuses
ChooseSbix(fnt) ==
    IF "sbix" \in DOMAIN fnt.tables /\ fnt.tables["sbix"].strikes # <<>>
    THEN Some(MaxByPpem(StrikeValues(fnt.tables["sbix"].strikes)))
    ELSE None

\* lines 39-40: the CBDT strike extract_images reuses
ChooseCbdt(fnt) ==
    LET cbdt_strikes == IF "CBDT" \in DOMAIN fnt.tables
                        THEN fnt.tables["CBDT"].strikeData ELSE <<>>
    IN IF cbdt_strikes # <<>> THEN Some(cbdt_strikes[Len(cbdt_strikes)])
       ELSE None

\* bytes.find: 0-based offset of the first occurrence, or -1
RECURSIVE FindFrom(_, _, _)
FindFrom(data, pat, k) ==
    IF k + Len(pat) > Len(data) THEN -1
    ELSE IF SubSeq(data, k + 1, k + Len(pat)) = pat THEN k
    ELSE FindFrom(data, pat, k + 1)

Find(data, pat) == FindFrom(data, pat, 0)

\* struct.unpack(">I", four)[0]
UnpackBE32(four) ==
    four[1] * 16777216 + four[2] * 65536 + four[3] * 256 + four[4]

\* a decoder that trusts the length field and never scans for the signature
CbdtBlobDeclared(data) ==
    LET field == Slice(data, 5, 9)
    IN IF Len(field) # 4 THEN [err |-> TRUE, blob |-> <<>>]
       ELSE [err |-> FALSE, blob |-> Slice(data, 9, 9 + UnpackBE32(field))]

\* lines 54-59: the image bytes of a CBDT record; err = struct.error
CbdtBlob(data) ==
    LET png_offset == Find(data, PNG_SIGNATURE)
    IN IF png_offset # -1
       THEN [err |-> FALSE, blob |-> Slice(data, png_offset, Len(data))]
       ELSE LET field == Slice(data, 5, 9)
            IN IF Len(field) # 4 THEN [err |-> TRUE, blob |-> <<>>]
               ELSE [err |-> FALSE,
                     blob |-> Slice(data, 9, 9 + UnpackBE32(field))]

\* lines 44-62: the reuse part of one loop iteration.
\*   raise  = an exception left the loop body
\*   img    = None or the reused image
\*   handed = None or the bytes given to Image.open
ReuseGlyph(sbix, cbdt, glyph_name) ==
    IF sbix # None /\ glyph_name \in DOMAIN sbix[1].glyphData
    THEN LET data == sbix[1].glyphData[glyph_name].data
         IN IF data # <<>>
            THEN [raise |-> ImageOpen(data).err,
                  img |-> ImageOpen(data).img,
                  handed |-> Some(data)]
            ELSE [raise |-> FALSE, img |-> None, handed |-> None]
    ELSE IF cbdt # None /\ DOMAIN cbdt[1] # {} /\ glyph_name \in DOMAIN cbdt[1]
    THEN LET data == cbdt[1][glyph_name].data
         IN IF data # <<>>
            THEN IF CbdtBlob(data).err
                 THEN [raise |-> FALSE, img |-> None, handed |-> None]
                 ELSE [raise |-> FALSE,
                       img |-> ImageOpen(CbdtBlob(data).blob).img,
                       handed |-> Some(CbdtBlob(data).blob)]
            ELSE [raise |-> FALSE, img |-> None, handed |-> None]
    ELSE [raise |-> FALSE, img |-> None, handed |-> None]

\* lines 30-41: open the font and the face, choose the strikes
SelectStrikes ==
    /\ pc = "start"
    /\ chosen_sbix' = ChooseSbix(font)
    /\ chosen_cbdt' = ChooseCbdt(font)
    /\ images' = EmptyMap
    /\ idx' = 0
    /\ pc' = "loop"
    /\ UNCHANGED <<font, face, out_dir, rendered, handed, raised, disk,
                   png_dir, out_woff2, docList, embed_args>>

\* lines 42-73: one iteration of the glyph loop
ExtractGlyph ==
    /\ pc = "loop"
    /\ idx < Len(font.order)
    /\ LET glyph_name == font.order[idx + 1]
           reuse == ReuseGlyph(chosen_sbix, chosen_cbdt, glyph_name)
           gid == idx
           rg == render_glyph(face, gid, DEFAULT_SIZE)
           img == IF reuse.img # None THEN reuse.img ELSE rg.img
       IN /\ handed' = IF reuse.handed # None
                       THEN Put(handed, glyph_name, reuse.handed[1])
                       ELSE handed
          /\ IF reuse.raise
             THEN /\ raised' = "UnidentifiedImageError"
                  /\ pc' = "aborted"
                  /\ UNCHANGED <<idx, face, rendered, images, out_dir>>
             ELSE /\ UNCHANGED <<raised, pc>>
                  /\ idx' = idx + 1
                  /\ IF reuse.img = None
                     THEN /\ face' = rg.face
                          /\ rendered' = rendered \cup {glyph_name}
                     ELSE UNCHANGED <<face, rendered>>
                  /\ IF img = None
                     THEN UNCHANGED <<images, out_dir>>
                     ELSE /\ out_dir' = Put(out_dir, glyph_name, img[1])
                          /\ images' = Put(images, glyph_name, img[1])
    /\ UNCHANGED <<font, chosen_sbix, chosen_cbdt, disk, png_dir, out_woff2,
                   docList, embed_args>>

\* sbixStrike.Glyph(glyphName, graphicType, originOffsetX, originOffsetY,
\* imageData), lines 82-90
SbixGlyph(glyph_name, img) ==
    [glyphName |-> glyph_name, graphicType |-> "png ", originOffsetX |-> 0,
     originOffsetY |-> 0, imageData |-> PngEncode(img)]

\* an embed_sbix that adds its strike to the strikes of an existing table
embed_sbix_merge(fnt, imgs, ppem, resolution) ==
    LET strike == [ppem |-> ppem, resolution |-> resolution,
                   glyphData |-> EmptyMap,
                   glyphs |-> [n \in DOMAIN imgs |-> SbixGlyph(n, imgs[n])]]
        old == IF "sbix" \in DOMAIN fnt.tables
               THEN fnt.tables["sbix"].strikes ELSE <<>>
        table == [version |-> 1, flags |-> 1,
                  strikes |-> Append(old, [key |-> ppem, val |-> strike])]
    IN [fnt EXCEPT !.tables = Put(fnt.tables, "sbix", table)]

\* embed_sbix(font, images, ppem, resolution), lines 76-98
embed_sbix(fnt, imgs, ppem, resolution) ==
    LET strike == [ppem |-> ppem, resolution |-> resolution,
                   glyphData |-> EmptyMap,
                   glyphs |-> [n \in DOMAIN imgs |-> SbixGlyph(n, imgs[n])]]
        table == [version |-> 1, flags |-> 1,
                  strikes |-> <<[key |-> ppem, val |-> strike]>>]
    IN [fnt EXCEPT !.tables = Put(fnt.tables, "sbix", table)]

\* line 74 and main, line 108: extract_images has returned (font, images)
\* and embed_sbix is called on them
EmbedSbix ==
    /\ pc = "loop"
    /\ idx = Len(font.order)
    /\ \E ppem \in EmbedPpems, resolution \in EmbedResolutions :
          /\ font' = embed_sbix(font, images, ppem, resolution)
          /\ embed_args' = Some([ppem |-> ppem, resolution |-> resolution])
    /\ pc' = "embedded"
    /\ UNCHANGED <<face, chosen_sbix, chosen_cbdt, idx, images, out_dir,
                   rendered, handed, raised, disk, png_dir, out_woff2,
                   docList>>

\* main, line 109: font.save(output_font)
SaveFont ==
    /\ pc = "embedded"
    /\ disk' = Put(disk, "output_font", font)
    /\ pc' = "saved"
    /\ UNCHANGED <<font, face, chosen_sbix, chosen_cbdt, idx, images,
                   out_dir, rendered, handed, raised, png_dir, out_woff2,
                   docList, embed_args>>

Next == SelectStrikes \/ ExtractGlyph \/ EmbedSbix \/ SaveFont

\* the state in which converter.py's main starts on a font and its face
ConvInit(fnt, fc) ==
    /\ pc = "start"
    /\ font = fnt
    /\ face = fc
    /\ chosen_sbix = None
    /\ chosen_cbdt = None
    /\ idx = 0
    /\ images = EmptyMap
    /\ out_dir = EmptyMap
    /\ rendered = {}
    /\ handed = EmptyMap
    /\ raised = "none"
    /\ disk = EmptyMap
    /\ png_dir = EmptyMap
    /\ out_woff2 = FALSE
    /\ docList = None
    /\ embed_args = None

\* Fonts of up to MaxGlyphs glyphs; every glyph is absent from, empty in,
\* decodable in or corrupt in the sbix strike, and absent from, decodable in
\* or corrupt in the CBDT strike; the renderer yields an image, an empty
\* bitmap or an error.  The sbix table is absent, empty, or holds one or
\* two strikes (the second one smaller).
SbixEntries == {[data |-> d] : d \in {<<>>, PNG_A, CORRUPT}}
CbdtEntries ==
    {[data |-> d] : d \in {Cbdt17(Zeros(5), <<0, 0, 0, 14>>, PNG_B),
                           Cbdt17(Zeros(5), <<0, 0, 0, 2>>, GARBAGE)}}

SbixTables(n) ==
    {None, Some(SbixTable(<<>>))}
    \cup {Some(SbixTable(<<[key |-> DEFAULT_SIZE,
                            val |-> SbixStrike(DEFAULT_SIZE, m)]>>)) :
            m \in Maps(Names(n), SbixEntries)}
    \cup {Some(SbixTable(<<[key |-> 64,
                            val |-> SbixStrike(64, [g \in Names(n) |->
                                                     [data |-> PNG_C]])],
                           [key |-> DEFAULT_SIZE,
                            val |-> SbixStrike(DEFAULT_SIZE, m)]>>)) :
            m \in Maps(Names(n), SbixEntries)}

CbdtTables(n) ==
    {None, Some(CbdtTable(<<>>))}
    \cup {Some(CbdtTable(<<m>>)) : m \in Maps(Names(n), CbdtEntries)}

Init ==
    \E n \in 0..MaxGlyphs :
      \E sb \in SbixTables(n), cb \in CbdtTables(n),
         gl \in [1..n -> {BMP_OK, BMP_EMPTY, BMP_ERROR}] :
        ConvInit(MkFont(Order(n), sb, cb), Face(0, gl))

Spec == Init /\ [][Next]_vars

\* Fonts of one glyph whose sbix table holds up to MaxStrikes strikes in
\* every insertion order of their ppem values, ties included.  A strike is
\* keyed by its ppem, and by its position when an earlier strike has the
\* same ppem.  The CBDT table is absent or holds one or two strikes.
StrikeGlyphData ==
    {[g \in {"A"} |-> [data |-> PNG_A]], [g \in {"A"} |-> [data |-> PNG_C]]}

StrikeKey(vals, k) ==
    IF \A j \in 1..(k - 1) : vals[j].ppem # vals[k].ppem
    THEN vals[k].ppem ELSE k

StrikeDicts ==
    UNION {{[k \in 1..n |-> [key |-> StrikeKey(vals, k), val |-> vals[k]]] :
              vals \in [1..n -> {SbixStrike(p, m) :
                                   p \in Ppems, m \in StrikeGlyphData}]} :
           n \in 0..MaxStrikes}

InitStrikes ==
    \E sd \in StrikeDicts :
      \E sb \in {None, Some(SbixTable(sd))},
         cb \in {None,
                 Some(CbdtTable(<<[g \in {"A"} |->
                                     [data |-> Cbdt17(Zeros(5), <<0, 0, 0, 14>>,
                                                      PNG_B)]]>>)),
                 Some(CbdtTable(<<[g \in {"A"} |->
                                     [data |-> Cbdt17(Zeros(5), <<0, 0, 0, 14>>,
                                                      PNG_C)]],
                                  [g \in {"A"} |->
                                     [data |-> Cbdt17(Zeros(5), <<0, 0, 0, 14>>,
                                                      PNG_B)]]>>))},
         bmp \in {BMP_OK, BMP_EMPTY} :
        ConvInit(MkFont(Order(1), sb, cb), Face(0, <<bmp>>))

SpecStrikes == InitStrikes /\ [][Next]_vars

\* Fonts without an sbix table whose CBDT strike holds, for each of up to
\* MaxCbdtGlyphs glyphs, no record or a record out of CbdtRecords: format 17
\* records with right and wrong length fields, with and without a PNG
\* signature, and blobs too short to hold the length field.
CbdtMetrics == {Zeros(5), PNG_SIGNATURE \o <<0>>}
CbdtFields ==
    {<<0, 0, 0, 0>>, <<0, 0, 0, 2>>, <<0, 0, 0, 9>>, <<0, 0, 1, 0>>,
     <<2, 0, 0, 0>>}
CbdtPayloads ==
    {<<>>, JPEG_A, PNG_B, GARBAGE, <<0>> \o PNG_B, PNG_B \o PNG_A,
     <<137, 80, 78>>, JPEG_A \o GARBAGE}
CbdtShort ==
    {<<>>, <<0>>, Zeros(8), PNG_SIGNATURE, <<0>> \o PNG_SIGNATURE \o <<13, 10>>}
CbdtRecords ==
    {Cbdt17(m, f, p) : m \in CbdtMetrics, f \in CbdtFields, p \in CbdtPayloads}
    \cup CbdtShort

InitCbdt ==
    \E n \in 0..MaxCbdtGlyphs :
      \E m \in Maps(Names(n), {[data |-> d] : d \in CbdtRecords}),
         gl \in [1..n -> {BMP_OK, BMP_EMPTY}] :
        ConvInit(MkFont(Order(n), None, Some(CbdtTable(<<m>>))), Face(1, gl))

SpecCbdt == InitCbdt /\ [][Next]_vars

----------------------------------------------------------------------------
(* Claims about converter.py *)

\* the glyphs the loop of extract_images has finished
Processed == {font.order[k] : k \in 1..idx}

SbixData(g) == chosen_sbix[1].glyphData[g].data
CbdtData(g) == chosen_cbdt[1][g].data

InSbix(g) == chosen_sbix # None /\ g \in DOMAIN chosen_sbix[1].glyphData
InCbdt(g) == chosen_cbdt # None /\ g \in DOMAIN chosen_cbdt[1]

SbixDecodable(g) ==
    InSbix(g) /\ SbixData(g) # <<>> /\ ~ImageOpen(SbixData(g)).err
CbdtDecodable(g) ==
    /\ InCbdt(g)
    /\ CbdtData(g) # <<>>
    /\ ~CbdtBlob(CbdtData(g)).err
    /\ ~ImageOpen(CbdtBlob(CbdtData(g)).blob).err

\* C1: every processed glyph with a non-empty decodable entry in the chosen
\* sbix strike or in the chosen CBDT strike has the image of that entry
\* recorded, and render_glyph was not invoked for it.
C1_ReuseBeforeRender ==
    \A g \in Processed :
      /\ SbixDecodable(g) =>
            /\ g \notin rendered
            /\ g \in DOMAIN images
            /\ images[g] = ImageOpen(SbixData(g)).img[1]
      /\ (~SbixDecodable(g) /\ CbdtDecodable(g)) =>
            /\ g \notin rendered
            /\ g \in DOMAIN images
            /\ images[g] = ImageOpen(CbdtBlob(CbdtData(g)).blob).img[1]

\* C2: a decode failure of the embedded bitmap bytes of one glyph never
\* aborts the run: no image-decode exception leaves extract_images while
\* glyphs are still to be processed.
C2_DecodeFailureRecovered ==
    ~(pc = "aborted" /\ raised = "UnidentifiedImageError"
      /\ idx < Len(font.order))

\* C3: once the strikes are chosen, the chosen sbix strike is the first
\* strike in iteration order whose ppem is the maximum over all strikes, and
\* no strike is chosen when the table is absent or has no strikes.
C3_MaxPpemStrike ==
    pc = "loop" =>
      IF "sbix" \in DOMAIN font.tables /\ Len(font.tables["sbix"].strikes) > 0
      THEN LET st == font.tables["sbix"].strikes
           IN \E k \in 1..Len(st) :
                /\ chosen_sbix = <<st[k].val>>
                /\ \A j \in 1..Len(st) : st[j].val.ppem <= st[k].val.ppem
                /\ \A j \in 1..(k - 1) : st[j].val.ppem < st[k].val.ppem
      ELSE chosen_sbix = <<>>

\* C3 witness: three strikes, the last two tied at the maximum ppem and
\* different, and the first of the two is the chosen one.
C3_Witness ==
    /\ pc = "loop"
    /\ "sbix" \in DOMAIN font.tables
    /\ Len(font.tables["sbix"].strikes) = 3
    /\ LET st == font.tables["sbix"].strikes
       IN /\ st[1].val.ppem = 64
          /\ st[2].val.ppem = 128
          /\ st[3].val.ppem = 128
          /\ st[2].val # st[3].val
          /\ chosen_sbix = <<st[2].val>>

\* a PNG signature starts at 0-based offset p of d
SigAt(d, p) ==
    /\ p + 4 <= Len(d)
    /\ d[p + 1] = 137 /\ d[p + 2] = 80 /\ d[p + 3] = 78 /\ d[p + 4] = 71
HasSig(d) == \E p \in 0..Len(d) : SigAt(d, p)
\* the big-endian uint32 at offsets 5..8 of d
DeclaredLen(d) ==
    ((d[6] * 256 + d[7]) * 256 + d[8]) * 256 + d[9]

\* the processed glyphs whose CBDT record the loop looked at
CbdtTried == {g \in Processed : InCbdt(g) /\ ~InSbix(g)}

\* C4: for every CBDT record the loop looked at: if the PNG signature occurs
\* in it, the bytes handed to the codec run from the first occurrence to the
\* end of the record, whatever the length field says; if it does not occur,
\* they are the declared-length run from offset 9; a record too short to
\* hold the length field gives no reused image and does not abort the run.
C4_CbdtRecordBytes ==
    /\ \A g \in CbdtTried :
        LET d == CbdtData(g)
        IN /\ HasSig(d) =>
                /\ g \in DOMAIN handed
                /\ \E p \in 0..Len(d) :
                     /\ SigAt(d, p)
                     /\ \A q \in 0..(p - 1) : ~SigAt(d, q)
                     /\ Len(handed[g]) = Len(d) - p
                     /\ \A i \in 1..(Len(d) - p) : handed[g][i] = d[p + i]
           /\ (~HasSig(d) /\ Len(d) >= 9) =>
                /\ g \in DOMAIN handed
                /\ Len(handed[g]) = Min(DeclaredLen(d), Len(d) - 9)
                /\ \A i \in 1..Len(handed[g]) : handed[g][i] = d[9 + i]
           /\ Len(d) < 9 =>
                /\ g \in DOMAIN images => g \in rendered
                /\ ~HasSig(d) => g \notin DOMAIN handed
    /\ (chosen_sbix = <<>> /\ pc # "start") => pc # "aborted"

\* C4 witness: a processed record whose length field (2) is wrong and whose
\* payload is a PNG; the PNG was handed to the codec and its image recorded.
C4_Witness ==
    \E g \in CbdtTried :
      /\ CbdtData(g) = Zeros(5) \o <<0, 0, 0, 2>> \o PNG_B
      /\ g \in DOMAIN handed
      /\ handed[g] = PNG_B
      /\ g \in DOMAIN images
      /\ images[g] = [w |-> 1, h |-> 1, px |-> <<40, 50, 60, 128>>]
      /\ g \notin rendered

\* C8: after embed_sbix the sbix table holds exactly one strike, keyed by
\* and carrying the ppem embed_sbix was called with; the strike has a glyph
\* record for exactly the keys of the image mapping, each of type "png "
\* with zero origin offsets; the table's version and flags are 1.
C8_SingleStrikeTable ==
    pc \in {"embedded", "saved"} =>
      /\ "sbix" \in DOMAIN font.tables
      /\ LET t == font.tables["sbix"]
         IN /\ t.version = 1
            /\ t.flags = 1
            /\ Len(t.strikes) = 1
            /\ t.strikes[1].key = embed_args[1].ppem
            /\ t.strikes[1].val.ppem = embed_args[1].ppem
            /\ t.strikes[1].val.resolution = embed_args[1].resolution
            /\ DOMAIN t.strikes[1].val.glyphs = DOMAIN images
            /\ \A g \in DOMAIN images :
                 LET r == t.strikes[1].val.glyphs[g]
                 IN /\ r.graphicType = "png "
                    /\ r.originOffsetX = 0
                    /\ r.originOffsetY = 0
                    /\ r.glyphName = g

\* C8 witness: embed_sbix ran at ppem 64 on a font whose chosen sbix strike
\* had ppem 128, with two images to embed.
C8_Witness ==
    /\ pc = "embedded"
    /\ chosen_sbix # <<>>
    /\ chosen_sbix[1].ppem = 128
    /\ embed_args[1].ppem = 64
    /\ Cardinality(DOMAIN images) = 2
    /\ Len(font.tables["sbix"].strikes) = 1

\* C10: in the sbix table embed_sbix has just built, the sbix-reuse lookup
\* of extract_images finds a non-empty entry for every key of the image
\* mapping and reuses it.
C10_EmbeddedVisibleToReuse ==
    pc = "embedded" =>
      \A g \in DOMAIN images :
        /\ g \in DOMAIN ChooseSbix(font)[1].glyphData
        /\ ReuseGlyph(ChooseSbix(font), <<>>, g).img # <<>>

----------------------------------------------------------------------------
(* make_svg_font.py *)

\* newTable(tag): a table object that has no attributes yet
NewTable(tag) == [tag |-> tag]

\* lines 31-36: the glyph with zero contours and zero points
EmptyGlyph ==
    [numberOfContours |-> 0, endPtsOfContours |-> <<>>, flags |-> <<>>,
     coordinates |-> <<>>, program |-> <<>>]

\* lines 29-37: the loop over the glyph order
RECURSIVE AddStubs(_, _)
AddStubs(glyphs, glyph_order) ==
    IF glyph_order = <<>> THEN glyphs
    ELSE AddStubs(IF Head(glyph_order) \notin DOMAIN glyphs
                  THEN Put(glyphs, Head(glyph_order), EmptyGlyph)
                  ELSE glyphs,
                  Tail(glyph_order))

\* an add_empty_outlines that replaces the outline table by stubs
add_empty_outlines_fresh(fnt, glyph_order) ==
    LET glyf == [tag |-> "glyf",
                 glyphs |-> [g \in Range(glyph_order) |-> EmptyGlyph]]
    IN [fnt EXCEPT !.tables = Put(Put(fnt.tables, "glyf", glyf), "loca",
                                  NewTable("loca"))]

\* add_empty_outlines(font, glyph_order), lines 22-38
add_empty_outlines(fnt, glyph_order) ==
    LET t1 == IF "glyf" \notin DOMAIN fnt.tables
              THEN Put(fnt.tables, "glyf", NewTable("glyf"))
              ELSE fnt.tables
        glyf == IF "glyphs" \notin DOMAIN t1["glyf"]
                THEN Put(t1["glyf"], "glyphs", EmptyMap)
                ELSE t1["glyf"]
        glyf2 == Put(glyf, "glyphs", AddStubs(glyf.glyphs, glyph_order))
    IN [fnt EXCEPT !.tables = Put(Put(t1, "glyf", glyf2), "loca",
                                  NewTable("loca"))]

\* base64.b64encode: the indices into the base64 alphabet, 64 for "="
RECURSIVE B64(_)
B64(b) ==
    IF Len(b) = 0 THEN <<>>
    ELSE IF Len(b) = 1
    THEN <<b[1] \div 4, (b[1] % 4) * 16, 64, 64>>
    ELSE IF Len(b) = 2
    THEN <<b[1] \div 4, (b[1] % 4) * 16 + b[2] \div 16, (b[2] % 16) * 4, 64>>
    ELSE <<b[1] \div 4, (b[1] % 4) * 16 + b[2] \div 16,
           (b[2] % 16) * 4 + b[3] \div 64, b[3] % 64>>
         \o B64(SubSeq(b, 4, Len(b)))

\* lines 47-55: the document of one glyph, from the bytes of its PNG file
SvgDoc(gid, bytes) ==
    LET size == ImageOpenLazy(bytes).size
        w == size[1]
        h == size[2]
        svg == [width |-> w, height |-> h, viewBox |-> <<0, 0, w, h>>,
                image |-> [width |-> w, height |-> h, href |-> B64(bytes)]]
    IN <<svg, gid, gid>>

\* lines 43-55: the loop over enumerate(glyph_order), from index gid on
RECURSIVE SvgDocsFrom(_, _, _, _)
SvgDocsFrom(docs, gid, glyph_order, dir) ==
    IF gid >= Len(glyph_order) THEN [err |-> FALSE, docs |-> docs]
    ELSE LET name == glyph_order[gid + 1]
         IN IF name \notin DOMAIN dir
            THEN SvgDocsFrom(docs, gid + 1, glyph_order, dir)
            ELSE IF ImageOpenLazy(dir[name]).err
            THEN [err |-> TRUE, docs |-> <<>>]
            ELSE SvgDocsFrom(Append(docs, SvgDoc(gid, dir[name])), gid + 1,
                             glyph_order, dir)

\* a build_svg_docs that numbers the documents by their position in the list
RECURSIVE SvgDocsCounted(_, _, _, _)
SvgDocsCounted(docs, gid, glyph_order, dir) ==
    IF gid >= Len(glyph_order) THEN [err |-> FALSE, docs |-> docs]
    ELSE LET name == glyph_order[gid + 1]
         IN IF name \notin DOMAIN dir
            THEN SvgDocsCounted(docs, gid + 1, glyph_order, dir)
            ELSE IF ImageOpenLazy(dir[name]).err
            THEN [err |-> TRUE, docs |-> <<>>]
            ELSE SvgDocsCounted(Append(docs, SvgDoc(Len(docs), dir[name])),
                                gid + 1, glyph_order, dir)

build_svg_docs_counted(glyph_order, dir) ==
    SvgDocsCounted(<<>>, 0, glyph_order, dir)

\* build_svg_docs(glyph_order, png_dir), lines 41-56; err = Image.open raised
\* on a file whose header it does not identify
build_svg_docs(glyph_order, dir) == SvgDocsFrom(<<>>, 0, glyph_order, dir)

\* lines 60-62: the loop over the five tags
RECURSIVE DropTags(_, _)
DropTags(tables, tags) ==
    IF tags = <<>> THEN tables
    ELSE DropTags(IF Head(tags) \in DOMAIN tables
                  THEN Del(tables, Head(tags)) ELSE tables,
                  Tail(tags))

\* a drop_bitmap_tables that forgets the EBDT and EBLC tables
drop_color_tables_only(fnt) ==
    [fnt EXCEPT !.tables = DropTags(fnt.tables, <<"sbix", "CBDT", "CBLC">>)]

\* drop_bitmap_tables(font), lines 59-62
drop_bitmap_tables(fnt) ==
    [fnt EXCEPT !.tables = DropTags(fnt.tables, BITMAP_TAGS)]

\* build_svg_font, lines 76-79
AddEmptyOutlines ==
    /\ pc = "svg_start"
    /\ font' = add_empty_outlines(font, font.order)
    /\ pc' = "outlined"
    /\ UNCHANGED <<face, chosen_sbix, chosen_cbdt, idx, images, out_dir,
                   rendered, handed, raised, disk, png_dir, out_woff2,
                   docList, embed_args>>

\* build_svg_font, lines 81-83
BuildSvgTable ==
    /\ pc = "outlined"
    /\ LET r == build_svg_docs(font.order, png_dir)
       IN IF r.err
          THEN /\ raised' = "UnidentifiedImageError"
               /\ pc' = "aborted"
               /\ UNCHANGED <<font, docList>>
          ELSE /\ docList' = Some(r.docs)
               /\ font' = [font EXCEPT !.tables =
                             Put(font.tables, "SVG ",
                                 Put(NewTable("SVG "), "docList", r.docs))]
               /\ pc' = "svg_built"
               /\ UNCHANGED raised
    /\ UNCHANGED <<face, chosen_sbix, chosen_cbdt, idx, images, out_dir,
                   rendered, handed, disk, png_dir, out_woff2, embed_args>>

\* build_svg_font, line 85
DropBitmapTables ==
    /\ pc = "svg_built"
    /\ font' = drop_bitmap_tables(font)
    /\ pc' = "stripped"
    /\ UNCHANGED <<face, chosen_sbix, chosen_cbdt, idx, images, out_dir,
                   rendered, handed, raised, disk, png_dir, out_woff2,
                   docList, embed_args>>

\* build_svg_font, lines 87-88: font.save(out_ttf), then the test of out_woff2
SaveTtf ==
    /\ pc = "stripped"
    /\ disk' = Put(disk, "out_ttf", font)
    /\ pc' = IF out_woff2 THEN "woff2" ELSE "done"
    /\ UNCHANGED <<font, face, chosen_sbix, chosen_cbdt, idx, images,
                   out_dir, rendered, handed, raised, png_dir, out_woff2,
                   docList, embed_args>>

\* to_woff2, lines 66-71: sub.subset(font) rewrites the font in place.  The
\* subsetter is not code of this repository and the scripts fix only its
\* options (flavor woff2, retain_gids, every glyph of the glyph order
\* populated), so its result is any font with the same glyph order that
\* keeps any of the tables and, in the outline table, any of the entries.
SubsetOutcomes(fnt) ==
    {[order |-> fnt.order,
      tables |-> [t \in T |->
                    IF t = "glyf"
                    THEN Put(fnt.tables[t], "glyphs",
                             [g \in G |-> fnt.tables[t].glyphs[g]])
                    ELSE fnt.tables[t]]] :
       T \in SUBSET DOMAIN fnt.tables,
       G \in SUBSET DOMAIN fnt.tables["glyf"].glyphs}

\* build_svg_font, line 89, and to_woff2, lines 65-72: the font is subsetted
\* in place and saved to out_woff2; when the subsetter or the save raises,
\* the exception leaves build_svg_font, with the font possibly rewritten and
\* the files on disk as they were.
ToWoff2 ==
    /\ pc = "woff2"
    /\ \E sub \in SubsetOutcomes(font), fails \in BOOLEAN :
         /\ font' = sub
         /\ IF fails
            THEN /\ raised' = "CompressionFailure"
                 /\ pc' = "aborted"
                 /\ UNCHANGED disk
            ELSE /\ disk' = Put(disk, "out_woff2", sub)
                 /\ pc' = "done"
                 /\ UNCHANGED raised
    /\ UNCHANGED <<face, chosen_sbix, chosen_cbdt, idx, images,
                   out_dir, rendered, handed, png_dir, out_woff2, docList,
                   embed_args>>

NextSvg ==
    AddEmptyOutlines \/ BuildSvgTable \/ DropBitmapTables \/ SaveTtf
    \/ ToWoff2

\* Source fonts of up to MaxSvgGlyphs glyphs holding any subset of the five
\* bitmap tables, no outline table or one with outlines for some of the
\* glyphs; PNG directories holding, per glyph, no file, a PNG, a PNG whose
\* pixel data is cut off or a file the codec rejects, and possibly a file
\* that names no glyph of the font.
Outline ==
    [numberOfContours |-> 1, endPtsOfContours |-> <<2>>,
     flags |-> <<1, 1, 1>>, coordinates |-> <<<<0, 0>>, <<5, 0>>, <<0, 5>>>>,
     program |-> <<>>]

SvgFont(order, bitmap, glyf) ==
    [order |-> order,
     tables |-> [t \in {"cmap"} \cup bitmap
                       \cup (IF glyf = None THEN {} ELSE {"glyf", "loca"}) |->
                   IF t = "glyf" THEN [tag |-> t, glyphs |-> glyf[1]]
                   ELSE [tag |-> t]]]

InitSvg ==
    \E n \in 0..MaxSvgGlyphs :
      \E bitmap \in SUBSET Range(BITMAP_TAGS),
         glyf \in {None} \cup {Some(m) : m \in Maps(Names(n), {Outline})},
         dir \in Maps(Names(n), {PNG_A, PNG_C, PNG_CUT, CORRUPT}),
         extra \in BOOLEAN, woff2 \in BOOLEAN :
        /\ pc = "svg_start"
        /\ font = SvgFont(Order(n), bitmap, glyf)
        /\ png_dir = IF extra THEN Put(dir, "stray", PNG_B) ELSE dir
        /\ out_woff2 = woff2
        /\ face = Face(0, <<>>)
        /\ chosen_sbix = None
        /\ chosen_cbdt = None
        /\ idx = 0
        /\ images = EmptyMap
        /\ out_dir = EmptyMap
        /\ rendered = {}
        /\ handed = EmptyMap
        /\ raised = "none"
        /\ disk = EmptyMap
        /\ docList = None
        /\ embed_args = None

SpecSvg == InitSvg /\ [][NextSvg]_vars

----------------------------------------------------------------------------
(* Claims about make_svg_font.py *)

\* the 0-based glyph IDs whose PNG file exists
WithPng == {k \in 0..(Len(font.order) - 1) : font.order[k + 1] \in DOMAIN png_dir}

\* C5: the list build_svg_docs returned holds exactly one document for each
\* glyph whose PNG file exists and none for any other glyph; each document's
\* range is (gid, gid), its width, height and viewBox are the PNG's pixel
\* size, and the list is strictly ascending by glyph ID.
C5_OneDocPerPng ==
    docList # <<>> =>
      LET docs == docList[1]
      IN /\ \A k \in WithPng : Cardinality({i \in 1..Len(docs) : docs[i][2] = k}) = 1
         /\ \A i \in 1..Len(docs) :
              /\ docs[i][2] \in WithPng
              /\ docs[i][3] = docs[i][2]
              /\ LET bytes == png_dir[font.order[docs[i][2] + 1]]
                     svg == docs[i][1]
                 IN /\ svg.width = bytes[9]
                    /\ svg.height = bytes[10]
                    /\ svg.viewBox = <<0, 0, bytes[9], bytes[10]>>
         /\ \A i \in 1..(Len(docs) - 1) : docs[i][2] < docs[i + 1][2]

\* C5 witness: a font of two glyphs where only the second has a PNG, of
\* 2 by 1 pixels; the list holds the one document, for glyph ID 1.
C5_Witness ==
    /\ docList # <<>>
    /\ Len(font.order) = 2
    /\ font.order[1] \notin DOMAIN png_dir
    /\ font.order[2] \in DOMAIN png_dir
    /\ Len(docList[1]) = 1
    /\ docList[1][1][2] = 1
    /\ docList[1][1][3] = 1
    /\ docList[1][1][1].width = 2
    /\ docList[1][1][1].height = 1

BitmapTagSet == {"sbix", "CBDT", "CBLC", "EBDT", "EBLC"}

C9_ExportFailureNotFatal ==
    /\ raised = "CompressionFailure" =>
         /\ "out_ttf" \in DOMAIN disk
         /\ "out_woff2" \notin DOMAIN disk
         /\ disk["out_ttf"].tables["SVG "].docList = docList[1]
         /\ pc # "aborted"
    /\ pc = "woff2" => "out_ttf" \in DOMAIN disk

====
